---- MODULE Spec2Model ----
(***************************************************************************)
(* Model of scripts/export-pdf.py: one run of the README -> PDF exporter.  *)
(*                                                                         *)
(* The script is a single try block (lines 17-67) with two handlers        *)
(* (lines 69-73 and 74-78).  Each statement group of the try block is one  *)
(* action; a handler is part of the action whose statement raised.         *)
(* sys.exit raises SystemExit, which neither handler catches (it is not an *)
(* Exception), so an exit status set inside the try block is final.  The   *)
(* same holds for any exception outside Exception that the service raises. *)
(*                                                                         *)
(* The environment of a run is: the command line (argv), the location of   *)
(* the script (scriptFile), what "from md2pdf import ..." does (md2pdf),   *)
(* and what is at <project root>/README.md (readme).  The conversion       *)
(* service is external: its outcome is chosen when it is called.           *)
(*                                                                         *)
(* Command-line strings are sequences of code points, so that the parser's *)
(* treatment of abbreviations, of --option=value and of numbers is         *)
(* computed from the strings.                                              *)
(***************************************************************************)
EXTENDS Integers, Sequences, FiniteSets, TLC

VARIABLES
    argv,              \* sys.argv[1:], a sequence of strings
    scriptFile,        \* Path(__file__), as its sequence of parts
    md2pdf,            \* what the import at line 18 does: [raises, exc]
    readme,            \* what is at README.md: [kind, text, error]
    pc,                \* the statement group the run is at
    args,              \* the namespace parse_args returned
    readme_path,       \* line 31
    output_path,       \* line 32
    markdown_content,  \* line 42
    result,            \* what the service call came back with (line 49)
    console,           \* what the run printed, in order
    events,            \* file-system operations and service calls, in order
    pdf,               \* the output file: "untouched" or "written"
    exitStatus         \* process exit status, -1 while running

vars == <<argv, scriptFile, md2pdf, readme, pc, args, readme_path, output_path,
          markdown_content, result, console, events, pdf, exitStatus>>

(***************************************************************************)
(* Bounds                                                                  *)
(***************************************************************************)
MaxArgs == 3
MaxDiagrams == 2

(***************************************************************************)
(* Command line                                                            *)
(***************************************************************************)
\* A command-line string is the sequence of the code points of its characters.
\* Ord gives the code point of the characters the model writes out.
Ord ==
    (" " :> 32) @@ ("+" :> 43) @@ ("-" :> 45) @@ ("." :> 46) @@
    ("=" :> 61) @@ ("_" :> 95) @@ ("0" :> 48) @@ ("1" :> 49) @@
    ("2" :> 50) @@ ("3" :> 51) @@ ("4" :> 52) @@ ("5" :> 53) @@
    ("6" :> 54) @@ ("7" :> 55) @@ ("8" :> 56) @@ ("9" :> 57) @@
    ("a" :> 97) @@ ("b" :> 98) @@ ("c" :> 99) @@ ("d" :> 100) @@
    ("e" :> 101) @@ ("f" :> 102) @@ ("g" :> 103) @@ ("h" :> 104) @@
    ("i" :> 105) @@ ("j" :> 106) @@ ("k" :> 107) @@ ("l" :> 108) @@
    ("m" :> 109) @@ ("n" :> 110) @@ ("o" :> 111) @@ ("p" :> 112) @@
    ("q" :> 113) @@ ("r" :> 114) @@ ("s" :> 115) @@ ("t" :> 116) @@
    ("u" :> 117) @@ ("v" :> 118) @@ ("w" :> 119) @@ ("x" :> 120) @@
    ("y" :> 121) @@ ("z" :> 122)

\* The string written with the characters cs.
Encode(cs) == [k \in 1..Len(cs) |-> Ord[cs[k]]]

Dash == Ord["-"]

Equals == Ord["="]

Blank == Ord[" "]

Dot == Ord["."]

Underscore == Ord["_"]

\* The line feed character.
Newline == 10

StartsWith(s, p) == Len(p) <= Len(s) /\ SubSeq(s, 1, Len(p)) = p

Has(s, c) == \E k \in 1..Len(s) : s[k] = c

\* str.split(c, 1): the part before the first c and the part after it.
Before(s, c) == SubSeq(s, 1, (CHOOSE k \in 1..Len(s) : s[k] = c /\ \A j \in 1..(k - 1) : s[j] # c) - 1)

After(s, c) == SubSeq(s, (CHOOSE k \in 1..Len(s) : s[k] = c /\ \A j \in 1..(k - 1) : s[j] # c) + 1, Len(s))

\* The decimal digits of Unicode (category Nd) come in runs of ten, 0 to 9;
\* these are the code points of the zeros.  They are the characters int() takes
\* as digits and the \d of a regular expression matches.
DigitZeros ==
    { 48, 1632, 1776, 1984, 2406, 2534, 2662, 2790, 2918, 3046, 3174, 3302,
      3430, 3558, 3664, 3792, 3872, 4160, 4240, 6112, 6160, 6470, 6608,
      6784, 6800, 6992, 7088, 7232, 7248, 42528, 43216, 43264, 43472, 43504,
      43600, 44016, 65296, 66720, 68912, 69734, 69872, 69942, 70096, 70384,
      70736, 70864, 71248, 71360, 71472, 71904, 72016, 72784, 73040, 73120,
      92768, 92864, 93008, 120782, 120792, 120802, 120812, 120822, 123200,
      123632, 125264, 130032 }

Digits == UNION { z..(z + 9) : z \in DigitZeros }

DigitValue(c) == c - (CHOOSE z \in DigitZeros : z <= c /\ c <= z + 9)

AllDigits(s) == \A k \in 1..Len(s) : s[k] \in Digits

\* The characters int() ignores around a number: tab, line feed, vertical tab,
\* form feed, carriage return and the blank, and the whitespace characters
\* outside ASCII.
IntSpace ==
    (9..13) \cup {32, 133, 160, 5760} \cup (8192..8202) \cup {8232, 8233, 8239, 8287, 12288}

RECURSIVE Strip(_)
Strip(s) ==
    IF s = <<>> THEN s
    ELSE IF s[1] \in IntSpace THEN Strip(Tail(s))
    ELSE IF s[Len(s)] \in IntSpace THEN Strip(SubSeq(s, 1, Len(s) - 1))
    ELSE s

\* Digits, with single underscores allowed between them.
DecimalBody(s) ==
    /\ s # <<>>
    /\ \A k \in 1..Len(s) : s[k] \in Digits \cup {Underscore}
    /\ s[1] # Underscore /\ s[Len(s)] # Underscore
    /\ \A k \in 1..(Len(s) - 1) : ~(s[k] = Underscore /\ s[k + 1] = Underscore)

IsDigit(c) == c \in Digits

\* The digits of a literal, without the underscores.
DigitsOf(s) == SelectSeq(s, IsDigit)

\* sys.int_info.default_max_str_digits: int() refuses a literal with more
\* digits than this.
MaxStrDigits == 4300

\* An integer of any size: its sign and its decimal digits, most significant
\* first, without leading zeros; zero is the digit 0 with no sign.
Integer(neg, digits) == [neg |-> neg, digits |-> digits]

\* The integer written with the decimal digit characters ds (not empty),
\* negated if neg.
IntegerOf(neg, ds) ==
    LET lead == { k \in 1..Len(ds) : DigitValue(ds[k]) # 0 }
    IN  IF lead = {} THEN Integer(FALSE, <<0>>)
        ELSE LET first == CHOOSE k \in lead : \A j \in lead : k <= j
             IN  Integer(neg, [k \in 1..(Len(ds) - first + 1) |-> DigitValue(ds[first + k - 1])])

\* int(string): whitespace around, an optional sign, decimal digits.
IntOf(s) ==
    LET t == Strip(s)
        signed == t # <<>> /\ t[1] \in {Dash, Ord["+"]}
        body == IF signed THEN Tail(t) ELSE t
    IN  IF DecimalBody(body) /\ Len(DigitsOf(body)) <= MaxStrDigits
        THEN [ok |-> TRUE, value |-> IntegerOf(signed /\ t[1] = Dash, DigitsOf(body))]
        ELSE [ok |-> FALSE, value |-> Integer(FALSE, <<0>>)]

\* type=int applied to the argument of --scale.
ScaleType(tok) == IntOf(tok)

OrientationChoices == { Encode(<<"p","o","r","t","r","a","i","t">>),
                        Encode(<<"l","a","n","d","s","c","a","p","e">>) }

\* Variant: the option declared without choices=, so any value is accepted.
OrientationAny(tok) == TRUE

\* choices=[...] applied to the argument of --orientation.
OrientationAllowed(tok) == tok \in OrientationChoices

\* The option strings of the parser and the action each selects.
OptionTable ==
    { [flag |-> Encode(<<"-","h">>), dest |-> "help"],
      [flag |-> Encode(<<"-","-","h","e","l","p">>), dest |-> "help"],
      [flag |-> Encode(<<"-","-","s","c","a","l","e">>), dest |-> "scale"],
      [flag |-> Encode(<<"-","-","o","r","i","e","n","t","a","t","i","o","n">>), dest |-> "orientation"] }

OptionStrings == { o.flag : o \in OptionTable }

DestOf(flag) == (CHOOSE o \in OptionTable : o.flag = flag).dest

DashDash == Encode(<<"-","-">>)

Opt(dest, flag, explicit, arg) ==
    [kind |-> "O", dest |-> dest, flag |-> flag, explicit |-> explicit, arg |-> arg]

Positional == [kind |-> "A", dest |-> "", flag |-> <<>>, explicit |-> FALSE, arg |-> <<>>]

\* - followed by digits, or by digits (possibly none), a dot and digits.
NegativeBody(tok) ==
    /\ Len(tok) >= 2 /\ tok[1] = Dash
    /\ LET r == Tail(tok)
       IN  \/ AllDigits(r)
           \/ /\ Has(r, Dot)
              /\ AllDigits(Before(r, Dot))
              /\ After(r, Dot) # <<>>
              /\ AllDigits(After(r, Dot))

\* argparse's pattern for a negative number, '^-\d+$|^-\d*\.\d+$', matched
\* with re.match: $ matches at the end and before a line feed that ends the
\* string.
NegativeNumber(tok) ==
    \/ NegativeBody(tok)
    \/ /\ tok # <<>> /\ tok[Len(tok)] = Newline
       /\ NegativeBody(SubSeq(tok, 1, Len(tok) - 1))

\* _get_option_tuples: the options an abbreviated string can stand for.
OptionTuples(tok) ==
    IF Len(tok) >= 2 /\ tok[1] = Dash /\ tok[2] = Dash
    THEN LET prefix == IF Has(tok, Equals) THEN Before(tok, Equals) ELSE tok
             explicit == Has(tok, Equals)
             arg == IF Has(tok, Equals) THEN After(tok, Equals) ELSE <<>>
         IN  { Opt(o.dest, o.flag, explicit, arg) : o \in {x \in OptionTable : StartsWith(x.flag, prefix)} }
    ELSE IF Len(tok) >= 2 /\ tok[1] = Dash
    THEN { Opt(o.dest, o.flag, TRUE, SubSeq(tok, 3, Len(tok))) :
              o \in {x \in OptionTable : x.flag = SubSeq(tok, 1, 2)} }
         \cup
         { Opt(o.dest, o.flag, FALSE, <<>>) :
              o \in {x \in OptionTable : x.flag # SubSeq(tok, 1, 2) /\ StartsWith(x.flag, tok)} }
    ELSE {}

\* _parse_optional: whether a string is an option, and which.
ParseOptional(tok) ==
    IF tok = <<>> \/ tok[1] # Dash THEN Positional
    ELSE IF tok \in OptionStrings THEN Opt(DestOf(tok), tok, FALSE, <<>>)
    ELSE IF Len(tok) = 1 THEN Positional
    ELSE IF Has(tok, Equals) /\ Before(tok, Equals) \in OptionStrings
    THEN Opt(DestOf(Before(tok, Equals)), Before(tok, Equals), TRUE, After(tok, Equals))
    ELSE LET tuples == OptionTuples(tok)
         IN  IF Cardinality(tuples) > 1
             THEN [Positional EXCEPT !.kind = "ambiguous"]
             ELSE IF Cardinality(tuples) = 1 THEN CHOOSE t \in tuples : TRUE
             ELSE IF NegativeNumber(tok) THEN Positional
             ELSE IF Has(tok, Blank) THEN Positional
             ELSE Opt("unknown", tok, FALSE, <<>>)

\* The classification of the whole command line: "--" ends the options, every
\* string after it is an argument.
AfterDashDash(av, i) == \E j \in 1..(i - 1) : av[j] = DashDash

Classify(av, i) ==
    IF AfterDashDash(av, i) THEN Positional
    ELSE IF av[i] = DashDash THEN [Positional EXCEPT !.kind = "-"]
    ELSE ParseOptional(av[i])

DefaultScale == Integer(FALSE, <<3>>)

DefaultOrientation == Encode(<<"l","a","n","d","s","c","a","p","e">>)

DefaultNamespace == [scale |-> DefaultScale, orientation |-> DefaultOrientation]

Parsed(status, ns, why) == [status |-> status, ns |-> ns, why |-> why]

\* _get_values and the store action: convert, check, assign.
Store(dest, value, ns) ==
    IF dest = "scale"
    THEN IF ScaleType(value).ok
         THEN Parsed("ok", [ns EXCEPT !.scale = ScaleType(value).value], "")
         ELSE Parsed("usage", ns, "invalid int value")
    ELSE IF OrientationAllowed(value)
         THEN Parsed("ok", [ns EXCEPT !.orientation = value], "")
         ELSE Parsed("usage", ns, "invalid choice")

\* An option without "=" takes the next string, which must be an argument
\* (not an option, not "--").
HasArgument(av, i) == i + 1 <= Len(av) /\ Classify(av, i + 1).kind = "A"

\* parser.parse_args(): the option strings are taken left to right; an option's
\* argument is converted and checked when the option is consumed; the help
\* option prints the help and exits at once; strings that belong to no option
\* are reported after the last option has been consumed.
RECURSIVE ParseFrom(_, _, _, _)
ParseFrom(av, i, ns, extras) ==
    IF i > Len(av)
    THEN IF extras THEN Parsed("usage", ns, "unrecognized arguments")
                   ELSE Parsed("ok", ns, "")
    ELSE LET c == Classify(av, i)
         IN  IF c.kind # "O" \/ c.dest = "unknown"
             THEN ParseFrom(av, i + 1, ns, TRUE)
             ELSE IF c.dest = "help"
             THEN IF ~c.explicit
                  THEN Parsed("help", ns, "")
                  ELSE IF c.flag[2] # Dash /\ c.arg # <<>>
                          /\ \A k \in 1..Len(c.arg) : c.arg[k] = Ord["h"]
                  THEN Parsed("help", ns, "")
                  ELSE Parsed("usage", ns, "ignored explicit argument")
             ELSE IF c.explicit
             THEN LET r == Store(c.dest, c.arg, ns)
                  IN  IF r.status = "ok" THEN ParseFrom(av, i + 1, r.ns, extras) ELSE r
             ELSE IF ~HasArgument(av, i)
             THEN Parsed("usage", ns, "expected one argument")
             ELSE LET r == Store(c.dest, av[i + 1], ns)
                  IN  IF r.status = "ok" THEN ParseFrom(av, i + 2, r.ns, extras) ELSE r

parse_args(av) ==
    IF \E i \in 1..Len(av) : Classify(av, i).kind = "ambiguous"
    THEN Parsed("usage", DefaultNamespace, "ambiguous option")
    ELSE ParseFrom(av, 1, DefaultNamespace, FALSE)

UsageExit == 2

HelpExit == 0

\* The strings the command lines of the model are made of: options in full,
\* abbreviated and with "=value", and values for them.
Tokens ==
    { Encode(<<"-","-","s","c","a","l","e">>),
      Encode(<<"-","-","o","r","i","e","n","t","a","t","i","o","n">>),
      Encode(<<"-","h">>),
      Encode(<<"-","-","h","e","l","p">>),
      Encode(<<"-","-","s","c">>),
      Encode(<<"-","-","s","c","a","l","e","=","0">>),
      Encode(<<"-","-","o","=","d","i","a","g","o","n","a","l">>),
      Encode(<<"2">>),
      Encode(<<"-","1">>),
      Encode(<<"p","o","r","t","r","a","i","t">>) }

RECURSIVE SeqsUpTo(_, _)
SeqsUpTo(S, n) ==
    IF n = 0 THEN {<<>>}
    ELSE LET shorter == SeqsUpTo(S, n - 1)
         IN  shorter \cup {Append(s, t) : s \in {x \in shorter : Len(x) = n - 1}, t \in S}

ArgvSet == SeqsUpTo(Tokens, MaxArgs)

\* parse_args over the command lines of the model, so that the parse of a
\* command line is computed once.
ParseTable == [av \in ArgvSet |-> parse_args(av)]

(***************************************************************************)
(* Paths                                                                   *)
(***************************************************************************)
ScriptFiles == { <<"/", "repo", "scripts", "export-pdf.py">>,
                 <<"scripts", "export-pdf.py">> }

\* Path.parent: the path without its last part; the root and "." are their own parent.
Parent(p) == IF Len(p) = 0 \/ p = <<"/">> THEN p ELSE SubSeq(p, 1, Len(p) - 1)

\* Path / name
Join(p, name) == Append(p, name)

project_root(file) == Parent(Parent(file))

ReadmePath(file) == Join(project_root(file), "README.md")

\* Variant: the output placed next to the script instead of in the project root.
OutputPathBesideScript(file) == Join(Parent(file), "README.pdf")

OutputPath(file) == Join(project_root(file), "README.pdf")

(***************************************************************************)
(* Exceptions                                                              *)
(***************************************************************************)
\* The code of a SystemExit: None, an integer that fits a C long, an integer
\* that does not, or any other object (text is what printing it gives).
ExitCode(kind, value, text) == [kind |-> kind, value |-> value, text |-> text]

NoCode == ExitCode("none", 0, "")

IntCode(n) == ExitCode("int", n, "")

HugeCode == ExitCode("huge", 0, "")

ObjectCode(t) == ExitCode("object", 0, t)

\* An exception: the classes of its type, from the type itself up to object
\* (the method resolution order), str(e), and the code if it is a SystemExit.
Exc(mro, msg, code) == [mro |-> mro, msg |-> msg, code |-> code]

NoExc == Exc(<<>>, "", NoCode)

BaseExceptionMro == <<"BaseException", "object">>

ExceptionMro == <<"Exception">> \o BaseExceptionMro

ImportErrorMro == <<"ImportError">> \o ExceptionMro

ModuleNotFoundErrorMro == <<"ModuleNotFoundError">> \o ImportErrorMro

OSErrorMro == <<"OSError">> \o ExceptionMro

PermissionErrorMro == <<"PermissionError">> \o OSErrorMro

RuntimeErrorMro == <<"RuntimeError">> \o ExceptionMro

ValueErrorMro == <<"ValueError">> \o ExceptionMro

AttributeErrorMro == <<"AttributeError">> \o ExceptionMro

SystemExitMro == <<"SystemExit">> \o BaseExceptionMro

KeyboardInterruptMro == <<"KeyboardInterrupt">> \o BaseExceptionMro

\* Variant: the handler selected by the exact class, not by isinstance.
IsInstanceExact(x, base) == x.mro # <<>> /\ x.mro[1] = base

\* Whether "except base" catches the exception x: isinstance(x, base).
IsInstance(x, base) == \E k \in 1..Len(x.mro) : x.mro[k] = base

(***************************************************************************)
(* The library and the input file                                          *)
(***************************************************************************)
\* What "from md2pdf import convert_markdown_to_pdf" can raise.
ImportErrors == { Exc(ModuleNotFoundErrorMro, "No module named 'md2pdf'", NoCode),
                  Exc(OSErrorMro, "libcairo not found", NoCode) }

ImportOutcomes == { [raises |-> FALSE, exc |-> NoExc] }
                  \cup { [raises |-> TRUE, exc |-> e] : e \in ImportErrors }

Docs == { <<>>, <<"#", "A">> }

\* absent: nothing at the path.  inaccessible: the stat of the path fails with
\* an error other than "not found".  unreadable: the path exists, open or read
\* fails.  file: a text file.  error is the exception the failing call raises.
ReadmeStates ==
    { [kind |-> "absent", text |-> <<>>, error |-> NoExc],
      [kind |-> "inaccessible", text |-> <<>>,
       error |-> Exc(OSErrorMro, "[Errno 36] File name too long", NoCode)],
      [kind |-> "unreadable", text |-> <<>>,
       error |-> Exc(PermissionErrorMro, "[Errno 13] Permission denied", NoCode)] }
    \cup { [kind |-> "file", text |-> d, error |-> NoExc] : d \in Docs }

\* Variant: the existence check left out.
ExistsAlways(r) == "yes"

\* readme_path.exists(): "yes", "no", or "raises" (an OSError)
Exists(r) ==
    IF r.kind = "absent" THEN "no"
    ELSE IF r.kind = "inaccessible" THEN "raises"
    ELSE "yes"

(***************************************************************************)
(* The conversion service                                                  *)
(***************************************************************************)
ResultKeys == {"success", "mermaid_count", "mermaid_rendered"}

FullResults == [success : BOOLEAN, mermaid_count : 0..MaxDiagrams,
                mermaid_rendered : 0..MaxDiagrams]

Restrict(d, K) == [k \in K |-> d[k]]

\* The dicts the service may return: any of the keys may be missing.
ResultDicts == { Restrict(d, K) : d \in FullResults, K \in SUBSET ResultKeys }

EmptyDict == Restrict([success |-> FALSE], {})

ServiceErrors == { Exc(RuntimeErrorMro, "render failed", NoCode),
                   Exc(ValueErrorMro, "bad value", NoCode),
                   Exc(ModuleNotFoundErrorMro, "No module named 'playwright'", NoCode),
                   Exc(SystemExitMro, "", IntCode(0)),
                   Exc(SystemExitMro, "", IntCode(3)),
                   Exc(SystemExitMro, "", IntCode(256)),
                   Exc(SystemExitMro, "", IntCode(0 - 1)),
                   Exc(SystemExitMro, "", HugeCode),
                   Exc(SystemExitMro, "", ObjectCode("fatal")),
                   Exc(KeyboardInterruptMro, "", NoCode),
                   Exc(<<"Cancelled">> \o KeyboardInterruptMro, "", NoCode) }

Outcome(kind, exc, value, wrote) ==
    [kind |-> kind, exc |-> exc, value |-> value, wrote |-> wrote]

\* What a call of convert_markdown_to_pdf can come back with: a dict, None, or
\* an exception; in each case the service may or may not have written the file.
ServiceOutcomes ==
    { Outcome("dict", NoExc, d, w) : d \in ResultDicts, w \in BOOLEAN }
    \cup { Outcome("none", NoExc, EmptyDict, w) : w \in BOOLEAN }
    \cup { Outcome("raised", e, EmptyDict, w) : e \in ServiceErrors, w \in BOOLEAN }

NoOutcome == Outcome("pending", NoExc, EmptyDict, FALSE)

\* dict.get(key, default)
Get(d, key, default) == IF key \in DOMAIN d THEN d[key] ELSE default

\* The keyword arguments of the call, lines 49-59.
ConvertCall(content, out, ns) ==
    [op |-> "convert", path |-> out, content |-> content,
     title |-> "MHO B2B E-commerce Platform Documentation",
     enable_mermaid |-> TRUE, page_numbers |-> TRUE, page_size |-> "a4",
     orientation |-> ns.orientation, mermaid_scale |-> ns.scale,
     mermaid_theme |-> "default"]

FsOp(op, path) == [op |-> op, path |-> path]

(***************************************************************************)
(* Console output                                                          *)
(***************************************************************************)
Line(msg, path, text, num) == [msg |-> msg, path |-> path, text |-> text, num |-> num]

(***************************************************************************)
(* Handlers                                                                *)
(***************************************************************************)
\* except ImportError as e: lines 69-73
HandleImportError(e) ==
    [out |-> << Line("import_error", <<>>, e, 0),
                Line("install_hint", <<>>, "pip install md2pdf-mermaid playwright markdown", 0),
                Line("install_hint", <<>>, "python -m playwright install chromium", 0) >>,
     status |-> 1]

\* Variant: the handler without its sys.exit(1); the script then ends normally.
HandleExceptionNoExit(e) ==
    [out |-> << Line("export_error", <<>>, e, 0),
                Line("traceback", <<>>, e, 0) >>,
     status |-> 0]

\* except Exception as e: lines 74-78
HandleException(e) ==
    [out |-> << Line("export_error", <<>>, e, 0),
                Line("traceback", <<>>, e, 0) >>,
     status |-> 1]

\* The status of a process that dies of an unhandled KeyboardInterrupt (of that
\* very class, not a subclass): the interpreter ends it by SIGINT (return code
\* -2; 130 as a shell shows it).
InterruptStatus == 0 - 2

\* The status of a process that exits with the value -1 (all bits set).
MinusOneStatus == 255

\* The exit status of a process that ends by SystemExit: 0 for the code None,
\* the low eight bits of an integer code that fits a C long, the status of -1
\* for an integer code that does not (its conversion fails), 1 for any other
\* code.
ExitStatusOf(code) ==
    IF code.kind = "none" THEN 0
    ELSE IF code.kind = "int" THEN code.value % 256
    ELSE IF code.kind = "huge" THEN MinusOneStatus
    ELSE 1

\* An exception no except clause of the script catches.  SystemExit ends the
\* process with the status of its code and prints nothing, except a code that
\* is neither None nor an integer, which is printed; for anything else the
\* interpreter prints the traceback.
Uncaught(x) ==
    IF IsInstance(x, "SystemExit")
    THEN [out |-> IF x.code.kind = "object"
                  THEN << Line("exit_message", <<>>, x.code.text, 0) >>
                  ELSE <<>>,
          status |-> ExitStatusOf(x.code)]
    ELSE [out |-> << Line("interpreter_traceback", <<>>, x.msg, 0) >>,
          status |-> IF x.mro[1] = "KeyboardInterrupt" THEN InterruptStatus ELSE 1]

\* What happens to an exception raised inside the try block (lines 69-78).
Handle(x) ==
    IF IsInstance(x, "ImportError") THEN HandleImportError(x.msg)
    ELSE IF IsInstance(x, "Exception") THEN HandleException(x.msg)
    ELSE Uncaught(x)

\* lines 34-36
MissingInput(p) == [out |-> << Line("readme_not_found", p, "", 0) >>, status |-> 1]

\* Variant: the failure branch without its sys.exit(1).
ReportResultNoExit(d, out) ==
    IF Get(d, "success", FALSE)
    THEN [out |-> << Line("exported", out, "", 0),
                     Line("diagrams_found", <<>>, "", Get(d, "mermaid_count", 0)),
                     Line("diagrams_rendered", <<>>, "", Get(d, "mermaid_rendered", 0)) >>,
          status |-> 0]
    ELSE [out |-> << Line("conversion_failed", <<>>, "", 0) >>, status |-> 0]

\* Variant: both count lines read the same key.
ReportResultSameCount(d, out) ==
    IF Get(d, "success", FALSE)
    THEN [out |-> << Line("exported", out, "", 0),
                     Line("diagrams_found", <<>>, "", Get(d, "mermaid_count", 0)),
                     Line("diagrams_rendered", <<>>, "", Get(d, "mermaid_count", 0)) >>,
          status |-> 0]
    ELSE [out |-> << Line("conversion_failed", <<>>, "", 0) >>, status |-> 1]

\* lines 61-67, for a result that is a dict
ReportResult(d, out) ==
    IF Get(d, "success", FALSE)
    THEN [out |-> << Line("exported", out, "", 0),
                     Line("diagrams_found", <<>>, "", Get(d, "mermaid_count", 0)),
                     Line("diagrams_rendered", <<>>, "", Get(d, "mermaid_rendered", 0)) >>,
          status |-> 0]
    ELSE [out |-> << Line("conversion_failed", <<>>, "", 0) >>, status |-> 1]

(***************************************************************************)
(* The run                                                                 *)
(***************************************************************************)
\* Variant: the arguments parsed before the library is imported.
PipelineParseFirst == <<"parse", "import", "check", "read", "convert", "report">>

\* The statement groups of the try block, in program order (lines 17-67).
Pipeline == <<"import", "parse", "check", "read", "convert", "report">>

FirstStep == Pipeline[1]

\* Variant: a failed conversion is tried again.
NextStepRetry(step, completed) ==
    IF step = "convert" /\ ~completed THEN "convert"
    ELSE IF ~completed \/ step = "report" THEN "done"
    ELSE IF step = "import" THEN "parse"
    ELSE IF step = "parse" THEN "check"
    ELSE IF step = "check" THEN "read"
    ELSE IF step = "read" THEN "convert"
    ELSE "report"

\* Where control goes after a statement group: to the next one when it completed,
\* out of the program when it called sys.exit or raised (the handlers end in
\* sys.exit), or when it was the last one.
NextStep(step, completed) ==
    LET i == CHOOSE k \in 1..Len(Pipeline) : Pipeline[k] = step
    IN  IF completed /\ i < Len(Pipeline) THEN Pipeline[i + 1] ELSE "done"

Init ==
    /\ argv \in ArgvSet
    /\ scriptFile \in ScriptFiles
    /\ md2pdf \in ImportOutcomes
    /\ readme \in ReadmeStates
    /\ pc = FirstStep
    /\ args = DefaultNamespace
    /\ readme_path = <<>>
    /\ output_path = <<>>
    /\ markdown_content = <<>>
    /\ result = NoOutcome
    /\ console = <<>>
    /\ events = <<>>
    /\ pdf = "untouched"
    /\ exitStatus = 0 - 1

\* The run ends in statement group step: said is what the group printed before,
\* h what was printed last and the exit status.
Finish(step, said, h) ==
    /\ console' = console \o said \o h.out
    /\ exitStatus' = h.status
    /\ pc' = NextStep(step, FALSE)

\* line 18
Import ==
    /\ pc = "import"
    /\ IF md2pdf.raises
       THEN Finish("import", <<>>, Handle(md2pdf.exc))
       ELSE /\ pc' = NextStep("import", TRUE)
            /\ UNCHANGED <<console, exitStatus>>
    /\ UNCHANGED <<argv, scriptFile, md2pdf, readme, args, readme_path, output_path,
                   markdown_content, result, events, pdf>>

\* lines 21-26
ParseArgs ==
    /\ pc = "parse"
    /\ LET r == ParseTable[argv]
       IN  CASE r.status = "ok" ->
                  /\ args' = r.ns
                  /\ pc' = NextStep("parse", TRUE)
                  /\ UNCHANGED <<console, exitStatus>>
             [] r.status = "help" ->
                  /\ Finish("parse", <<>>,
                            [out |-> << Line("help", <<>>, "", 0) >>, status |-> HelpExit])
                  /\ UNCHANGED args
             [] OTHER ->
                  /\ Finish("parse", <<>>,
                            [out |-> << Line("usage_error", <<>>, r.why, 0) >>,
                             status |-> UsageExit])
                  /\ UNCHANGED args
    /\ UNCHANGED <<argv, scriptFile, md2pdf, readme, readme_path, output_path,
                   markdown_content, result, events, pdf>>

\* lines 29-36
CheckInput ==
    /\ pc = "check"
    /\ readme_path' = ReadmePath(scriptFile)
    /\ output_path' = OutputPath(scriptFile)
    /\ events' = Append(events, FsOp("exists", ReadmePath(scriptFile)))
    /\ CASE Exists(readme) = "yes" ->
              /\ pc' = NextStep("check", TRUE)
              /\ UNCHANGED <<console, exitStatus>>
         [] Exists(readme) = "no" ->
              Finish("check", <<>>, MissingInput(ReadmePath(scriptFile)))
         [] OTHER ->
              Finish("check", <<>>, Handle(readme.error))
    /\ UNCHANGED <<argv, scriptFile, md2pdf, readme, args, markdown_content, result, pdf>>

\* lines 38-42
ReadInput ==
    /\ pc = "read"
    /\ events' = Append(events, FsOp("read", readme_path))
    /\ IF readme.kind = "file"
       THEN /\ markdown_content' = readme.text
            /\ console' = Append(console, Line("reading", readme_path, "", 0))
            /\ pc' = NextStep("read", TRUE)
            /\ UNCHANGED exitStatus
       ELSE /\ Finish("read", << Line("reading", readme_path, "", 0) >>,
                      Handle(readme.error))
            /\ UNCHANGED markdown_content
    /\ UNCHANGED <<argv, scriptFile, md2pdf, readme, args, readme_path, output_path,
                   result, pdf>>

\* lines 44-59
Convert ==
    /\ pc = "convert"
    /\ events' = Append(events, ConvertCall(markdown_content, output_path, args))
    /\ \E o \in ServiceOutcomes :
         LET said == << Line("converting", <<>>, "", Len(markdown_content)),
                        Line("settings", <<>>, args.orientation, args.scale),
                        Line("writing", output_path, "", 0) >>
         IN  /\ result' = o
             /\ pdf' = IF o.wrote THEN "written" ELSE pdf
             /\ IF o.kind = "raised"
                THEN Finish("convert", said, Handle(o.exc))
                ELSE /\ console' = console \o said
                     /\ pc' = NextStep("convert", TRUE)
                     /\ UNCHANGED exitStatus
    /\ UNCHANGED <<argv, scriptFile, md2pdf, readme, args, readme_path, output_path,
                   markdown_content>>

\* lines 61-67
Report ==
    /\ pc = "report"
    /\ IF result.kind = "none"
       THEN Finish("report", <<>>,
                   Handle(Exc(AttributeErrorMro, "'NoneType' object has no attribute 'get'", NoCode)))
       ELSE Finish("report", <<>>, ReportResult(result.value, output_path))
    /\ UNCHANGED <<argv, scriptFile, md2pdf, readme, args, readme_path, output_path,
                   markdown_content, result, events, pdf>>

Next == Import \/ ParseArgs \/ CheckInput \/ ReadInput \/ Convert \/ Report

Spec == Init /\ [][Next]_vars

\* The run is one sequential process: a step that can be taken is taken.
FairSpec == Spec /\ WF_vars(Next)

(***************************************************************************)
(* Vocabulary of the properties                                            *)
(***************************************************************************)
Done == pc = "done"

Says(msg) == \E i \in 1..Len(console) : console[i].msg = msg

SaysPath(msg, p) == \E i \in 1..Len(console) : console[i].msg = msg /\ console[i].path = p

SaysText(msg, t) == \E i \in 1..Len(console) : console[i].msg = msg /\ console[i].text = t

SaysNum(msg, n) == \E i \in 1..Len(console) : console[i].msg = msg /\ console[i].num = n

LibraryImportable == ~md2pdf.raises

ConvertEvents == { i \in 1..Len(events) : events[i].op = "convert" }

InputEvents == { i \in 1..Len(events) : events[i].op \in {"exists", "read"} }

\* The conventional paths: README.md and README.pdf in the directory two levels
\* above the script file.
ConventionalRoot == SubSeq(scriptFile, 1, Len(scriptFile) - 2)

ConventionalInput == ConventionalRoot \o <<"README.md">>

ConventionalOutput == ConventionalRoot \o <<"README.pdf">>

Portrait == Encode(<<"p","o","r","t","r","a","i","t">>)

Landscape == Encode(<<"l","a","n","d","s","c","a","p","e">>)

\* The service was called and returned a result that reports success.
ExportSucceeded ==
    /\ result.kind = "dict"
    /\ "success" \in DOMAIN result.value
    /\ result.value["success"]

\* The service was called and returned a result that does not report success.
ReportedFailure == result.kind = "dict" /\ ~ExportSucceeded

ServiceRaised == result.kind = "raised"

\* The exception x is of class base or of a class derived from it.
OfClass(x, base) == \E k \in DOMAIN x.mro : x.mro[k] = base

\* The service raised an exception derived from Exception.
ServiceRaisedError == ServiceRaised /\ OfClass(result.exc, "Exception")

\* The service raised an exception outside Exception.
ServiceRaisedOther == ServiceRaised /\ ~OfClass(result.exc, "Exception")

\* The service raised SystemExit with a code that is None or an integer.
ServiceExitedSilently ==
    ServiceRaised /\ OfClass(result.exc, "SystemExit") /\ result.exc.code.kind # "object"

\* The service raised SystemExit with the integer c as its code.
ServiceExitedWith(c) ==
    /\ ServiceRaised /\ OfClass(result.exc, "SystemExit")
    /\ result.exc.code.kind = "int" /\ result.exc.code.value = c

\* The service raised an exception of the class KeyboardInterrupt itself.
ServiceInterrupted == ServiceRaised /\ result.exc.mro[1] = "KeyboardInterrupt"

IsPositive(n) == ~n.neg /\ n.digits # <<0>>

Three == [neg |-> FALSE, digits |-> <<3>>]

\* The counts of a returned result, 0 for a count the service left out.
FoundCount ==
    IF "mermaid_count" \in DOMAIN result.value THEN result.value["mermaid_count"] ELSE 0

RenderedCount ==
    IF "mermaid_rendered" \in DOMAIN result.value THEN result.value["mermaid_rendered"] ELSE 0

\* Position of the first orientation option (in full, abbreviated, or with
\* "=value") whose value is outside the choices, 0 if none.
BadOrientationAt ==
    LET bad == { i \in 1..Len(argv) :
                    /\ Classify(argv, i).kind = "O"
                    /\ Classify(argv, i).dest = "orientation"
                    /\ IF Classify(argv, i).explicit
                       THEN Classify(argv, i).arg \notin {Portrait, Landscape}
                       ELSE /\ HasArgument(argv, i)
                            /\ argv[i + 1] \notin {Portrait, Landscape} }
    IN  IF bad = {} THEN 0 ELSE CHOOSE i \in bad : \A j \in bad : i <= j

BadOrientation == BadOrientationAt > 0

HelpBeforeBadOrientation ==
    \E j \in 1..(BadOrientationAt - 1) :
        Classify(argv, j).kind = "O" /\ Classify(argv, j).dest = "help"

ArgsAccepted == parse_args(argv).status = "ok"

ArgsRejected == parse_args(argv).status = "usage"

HelpRequested == parse_args(argv).status = "help"

ErrorLines == {"readme_not_found", "import_error", "export_error", "usage_error",
               "conversion_failed", "interpreter_traceback", "exit_message"}

TerminalLines == ErrorLines \cup {"exported", "help"}

ErrorSeen == \E i \in 1..Len(console) : console[i].msg \in ErrorLines

(***************************************************************************)
(* C1                                                                      *)
(***************************************************************************)
\* C1 as stated: every finished run has exit status 0 or 1, and 0 exactly when
\* the export succeeded.
C1_AsStated ==
    Done => /\ exitStatus \in {0, 1}
            /\ (exitStatus = 0 <=> ExportSucceeded)

\* C1, amended: a finished run in which the service did not raise an exception
\* outside Exception has exit status 0, 1 or 2; it is 2 exactly when the
\* argument parser rejected the command line, 0 exactly when the export
\* succeeded or the parser printed the help, and 1 on every other failure.  A
\* run in which the service raised an exception outside Exception ends with the
\* status the interpreter gives the unhandled exception: death by SIGINT
\* exactly when it is a KeyboardInterrupt, otherwise a status from 0 to 255; a
\* SystemExit whose code is an integer from 0 to 255 ends the run with that
\* code, 0 included.
C1_ExitStatus ==
    Done =>
        IF ServiceRaisedOther
        THEN /\ exitStatus \in (0..255) \cup {0 - 2}
             /\ (exitStatus = 0 - 2 <=> ServiceInterrupted)
             /\ \A c \in 0..255 : ServiceExitedWith(c) => exitStatus = c
        ELSE /\ exitStatus \in {0, 1, 2}
             /\ (exitStatus = 2 <=> (LibraryImportable /\ ArgsRejected))
             /\ (exitStatus = 0 <=> (ExportSucceeded \/ (LibraryImportable /\ HelpRequested)))

C1_Witness == Done /\ exitStatus = 2 /\ SaysText("usage_error", "invalid int value")

(***************************************************************************)
(* C2                                                                      *)
(***************************************************************************)
\* C2: when the existence check ran and README.md was absent, the run has ended
\* with exit status 1, has printed the expected path in its error message, has
\* not read the input, has not called the service, and the output file is
\* untouched.
C2_MissingInput ==
    (InputEvents # {} /\ readme.kind = "absent") =>
        /\ Done
        /\ exitStatus = 1
        /\ SaysPath("readme_not_found", ConventionalInput)
        /\ ConvertEvents = {}
        /\ events = << FsOp("exists", ConventionalInput) >>
        /\ pdf = "untouched"

C2_Witness == Done /\ readme.kind = "absent" /\ Says("readme_not_found")

(***************************************************************************)
(* C3                                                                      *)
(***************************************************************************)
\* C3 as stated: with an orientation value outside the choices, the finished
\* run was rejected by the argument parser with a usage error, exited non-zero,
\* and did no file I/O and no service call.
C3_AsStated ==
    (BadOrientation /\ Done) =>
        /\ Says("usage_error")
        /\ exitStatus # 0
        /\ events = <<>>

\* C3, amended: with an orientation value outside the choices no run ever
\* touches the input or output file or calls the service.  When the import of
\* the library succeeds the run ends in the argument parser: with a usage error
\* and exit status 2, unless the parser came to a help option first and printed
\* the help (exit 0), which needs a help option before the bad one.  When the
\* import fails the run ends with exit status 1 before the arguments are parsed.
C3_BadOrientation ==
    BadOrientation =>
        /\ events = <<>>
        /\ pdf = "untouched"
        /\ pc \in {"import", "parse", "done"}
        /\ (Done /\ ~LibraryImportable) => (exitStatus = 1 /\ ~Says("usage_error"))
        /\ (Done /\ LibraryImportable) =>
              \/ exitStatus = 2 /\ Says("usage_error")
              \/ exitStatus = 0 /\ Says("help") /\ HelpBeforeBadOrientation
        /\ (Done /\ LibraryImportable /\ ~HelpBeforeBadOrientation) =>
              (exitStatus = 2 /\ Says("usage_error"))

C3_Witness ==
    /\ BadOrientation /\ Done /\ LibraryImportable
    /\ Classify(argv, BadOrientationAt).explicit
    /\ SaysText("usage_error", "invalid choice")

(***************************************************************************)
(* C4                                                                      *)
(***************************************************************************)
\* C4 as stated: when the service raised an exception of any class, the run has
\* ended with exit status 1, a printed error line carries the exception's
\* message, and the success message was not printed.
C4_AsStated ==
    ServiceRaised =>
        /\ Done
        /\ exitStatus = 1
        /\ (SaysText("export_error", result.exc.msg) \/ SaysText("import_error", result.exc.msg))
        /\ ~Says("exported")

\* C4, amended: when the service raised, the run has ended and the success
\* message was not printed.  For an exception derived from Exception the exit
\* status is 1 and a printed error line carries the exception's message.  An
\* exception outside Exception is not handled: the script prints no error line
\* of its own and does not set the exit status; a SystemExit whose code is an
\* integer from 0 to 255 ends the run with that code, so with 0 for the code 0.
C4_ServiceRaised ==
    ServiceRaised =>
        /\ Done
        /\ ~Says("exported")
        /\ ServiceRaisedError =>
              /\ exitStatus = 1
              /\ \/ SaysText("export_error", result.exc.msg)
                 \/ SaysText("import_error", result.exc.msg)
        /\ ServiceRaisedOther =>
              /\ ~Says("export_error")
              /\ ~Says("import_error")
              /\ ~Says("install_hint")
              /\ \A c \in 0..255 : ServiceExitedWith(c) => exitStatus = c

C4_Witness ==
    /\ ServiceRaised /\ result.exc.mro[1] = "ModuleNotFoundError"
    /\ Done /\ pdf = "written"
    /\ Says("install_hint")

(***************************************************************************)
(* C5                                                                      *)
(***************************************************************************)
\* C5 as stated: after a conversion failure (a non-success result or an
\* exception) the finished run has exit status 1 and has printed a trace.
C5_AsStated ==
    (Done /\ (ReportedFailure \/ ServiceRaised)) =>
        /\ exitStatus = 1
        /\ Says("traceback")

\* C5, amended: after a non-success result or an exception derived from
\* Exception the finished run has exit status 1 and has printed an error line;
\* the script prints the trace exactly when the exception is not an ImportError.
\* A non-success result prints "PDF conversion failed" and no trace; an
\* ImportError prints the install guidance and no trace.  After an exception
\* outside Exception the script prints neither a message nor a trace of its
\* own, and the exit status is that of the exception: 0 for SystemExit(0).
C5_ConversionFailure ==
    /\ (Done /\ (ReportedFailure \/ ServiceRaisedError)) =>
          /\ exitStatus = 1
          /\ ErrorSeen
          /\ (Says("traceback") <=>
                (ServiceRaised /\ ~OfClass(result.exc, "ImportError")))
          /\ ReportedFailure => Says("conversion_failed")
          /\ (ServiceRaised /\ OfClass(result.exc, "ImportError")) => Says("install_hint")
    /\ (Done /\ ServiceRaisedOther) =>
          /\ ~Says("export_error")
          /\ ~Says("import_error")
          /\ ~Says("traceback")
          /\ ~Says("conversion_failed")
          /\ ServiceExitedWith(0) => exitStatus = 0

C5_Witness == Done /\ ReportedFailure /\ Says("conversion_failed") /\ ~Says("traceback")

(***************************************************************************)
(* C6                                                                      *)
(***************************************************************************)
C6_Pre ==
    /\ ExportSucceeded
    /\ readme.kind = "file"
    /\ LibraryImportable
    /\ ArgsAccepted

C6_Post ==
    /\ Done
    /\ exitStatus = 0
    /\ \E i \in ConvertEvents : events[i].path = ConventionalOutput
    /\ SaysPath("exported", ConventionalOutput)

\* C6: with the library importable, the arguments accepted, README.md a readable
\* file and a success result from the service, the run ends with exit status 0,
\* having called the service with the conventional output path as destination
\* and printed the confirmation naming that path.
C6_SuccessfulExport == C6_Pre ~> C6_Post

C6_Witness == C6_Pre /\ C6_Post /\ args.orientation = Portrait /\ pdf = "written"

(***************************************************************************)
(* C7                                                                      *)
(***************************************************************************)
\* C7: after a success result whose rendered count is below its found count, or
\* that leaves a count out, the finished run has exit status 0 and has printed
\* the found count and the rendered count on two lines, each the value the
\* service returned (0 for a count left out).
C7_PartialRendering ==
    (Done /\ ExportSucceeded
          /\ (RenderedCount < FoundCount
              \/ ~({"mermaid_count", "mermaid_rendered"} \subseteq DOMAIN result.value))) =>
        /\ exitStatus = 0
        /\ \E i, j \in 1..Len(console) :
              /\ i # j
              /\ console[i].msg = "diagrams_found" /\ console[i].num = FoundCount
              /\ console[j].msg = "diagrams_rendered" /\ console[j].num = RenderedCount

C7_Witness ==
    /\ Done /\ ExportSucceeded
    /\ {"mermaid_count", "mermaid_rendered"} \subseteq DOMAIN result.value
    /\ FoundCount = 2 /\ RenderedCount = 1
    /\ SaysNum("diagrams_rendered", 1)

(***************************************************************************)
(* C8                                                                      *)
(***************************************************************************)
\* C8: in every call of the service the scale passed is a positive integer and
\* the orientation is portrait or landscape; with no arguments they are 3 and
\* landscape.
C8_CallConfiguration ==
    \A i \in ConvertEvents :
        /\ IsPositive(events[i].mermaid_scale)
        /\ events[i].orientation \in {Portrait, Landscape}
        /\ argv = <<>> => (events[i].mermaid_scale = Three /\ events[i].orientation = Landscape)

(***************************************************************************)
(* C9                                                                      *)
(***************************************************************************)
C9_Linear ==
    /\ Cardinality(ConvertEvents) <= 1
    /\ Len(events) <= 3
    /\ Len(events) >= 1 => events[1] = FsOp("exists", ConventionalInput)
    /\ Len(events) >= 2 => /\ events[2] = FsOp("read", ConventionalInput)
                           /\ readme.kind \in {"unreadable", "file"}
    /\ Len(events) >= 3 => /\ events[3].op = "convert"
                           /\ readme.kind = "file"
                           /\ events[3].content = readme.text
    /\ ErrorSeen => Done
    /\ ServiceRaised => Done
    /\ Done <=> exitStatus # 0 - 1
    /\ Cardinality({ i \in 1..Len(console) : console[i].msg \in TerminalLines })
          = IF Done /\ ~ServiceExitedSilently THEN 1 ELSE 0

\* C9: the service is called at most once, and only after the existence check
\* and the full read of the input, in that order; once an error line is printed
\* or the service has raised the run is over; a finished run printed exactly one
\* terminal line (none when it ended by a SystemExit of the service whose code
\* is None or an integer) and takes no further step.
C9_SinglePass == []C9_Linear /\ [][pc # "done"]_vars

C9_Witness ==
    /\ Done /\ Len(events) = 3
    /\ ServiceRaised /\ result.exc.mro[1] = "RuntimeError"
    /\ Says("traceback")

(***************************************************************************)
(* C10                                                                     *)
(***************************************************************************)
\* C10 as stated: when the import of the library fails the run goes from the
\* import straight to its end: exit status 1, install guidance printed, the
\* arguments not parsed, no file operation, no service call, no trace.
C10_AsStated ==
    ~LibraryImportable =>
        /\ pc \in {"import", "done"}
        /\ events = <<>>
        /\ args = DefaultNamespace
        /\ Done => /\ exitStatus = 1
                   /\ Says("install_hint")
                   /\ ~Says("traceback")

\* C10, amended: when the import of the library fails the run goes from the
\* import straight to its end with exit status 1: the arguments not parsed, no
\* file operation, no service call.  When the import fails with an ImportError
\* (the library is not installed) the install guidance is printed with the
\* error's message and no trace; when it fails with another exception derived
\* from Exception the general error line and the trace are printed and no
\* install guidance.  So a usage error or a missing-input error is only ever
\* printed when the import succeeded.
C10_DependencyFirst ==
    /\ ~LibraryImportable =>
          /\ pc \in {"import", "done"}
          /\ events = <<>>
          /\ args = DefaultNamespace
          /\ Done => /\ exitStatus = 1
                     /\ ~Says("usage_error")
                     /\ ~Says("help")
                     /\ ~Says("readme_not_found")
                     /\ IF OfClass(md2pdf.exc, "ImportError")
                        THEN /\ Says("install_hint")
                             /\ SaysText("import_error", md2pdf.exc.msg)
                             /\ ~Says("traceback")
                        ELSE /\ SaysText("export_error", md2pdf.exc.msg)
                             /\ Says("traceback")
                             /\ ~Says("install_hint")
    /\ (Says("usage_error") \/ Says("readme_not_found")) => LibraryImportable

C10_Witness ==
    /\ ~LibraryImportable /\ Done
    /\ md2pdf.exc.mro[1] = "ModuleNotFoundError"
    /\ BadOrientation
    /\ readme.kind = "absent"
    /\ Says("install_hint")

====
